---- MODULE Spec2Model ----
(***************************************************************************)
(* Model of the Supabase <-> R2 storage migrator: the two storage          *)
(* backends, the planner (PlanStep.scanFiles) and the transfer executor     *)
(* (TransferStep.startTransfer / processFile / updateProgress and the      *)
(* pause, resume and cancel handlers).                                     *)
(*                                                                         *)
(* Sizes are counted in MiB (the code counts bytes): every size the model  *)
(* uses is a whole number of MiB, and 2^31 bytes does not fit TLC's ints.  *)
(***************************************************************************)
EXTENDS Integers, Sequences, FiniteSets, TLC

(***************************************************************************)
(* Bounds of the model                                                     *)
(***************************************************************************)
\* how many writes a concurrent writer (not this program) makes
MaxExtWrites == 1
\* how many listing / probe endpoints can be failing at one time
MaxFaults == 1
\* how many times startTransfer is invoked (start, resume, start after cancel)
MaxRuns == 2
\* the entries the activity log holds when a run of the log model starts
MaxLogs == 2
\* how many times the loop model goes round the for loop of startTransfer
MaxIterations == 4

(***************************************************************************)
(* The universe: two backends, two buckets, two keys, three blobs          *)
(***************************************************************************)
Backends == {"supabase", "r2"}
BucketOrder == <<"b1", "b2">>
Buckets == {"b1", "b2"}
KeyOrder == <<"k1", "k2">>
Keys == {"k1", "k2"}
Objs == Buckets \X Keys
\* the objects a concurrent writer creates while a run is under way
RaceObjs == {<<"b1", "k2">>, <<"b2", "k2">>}

\* A blob is a piece of data. 0 is "no object". Blob 1 is below every size
\* ceiling, blob 2 above the smallest one, blob 3 exactly the smallest one.
\* Blob 3 is also what a concurrent writer writes.
Blobs == {1, 2, 3}
BlobSize(c) == CASE c = 1 -> 50 [] c = 2 -> 200 [] c = 3 -> 100 [] OTHER -> 0

Directions == {"supabase-to-r2", "r2-to-supabase"}
Policies == {"skip", "overwrite-newer", "always-overwrite"}
\* the <option> values of the Max File Size select the model offers, in MiB
MaxFileSizeChoices == {100, 500}
\* the values the model types into the concurrency input
ConcurrencyChoices == {<<"1">>, <<"2">>}

SourceOf(direction) == IF direction = "supabase-to-r2" THEN "supabase" ELSE "r2"
DestOf(direction) == IF direction = "supabase-to-r2" THEN "r2" ELSE "supabase"

\* An endpoint that can fail: the listing of a bucket, the existence probe of
\* an object. A failing endpoint fails for whichever backend is asked.
Faults == ({"list"} \X Buckets) \cup ({"probe"} \X Objs)

VARIABLES
  step,            \* AppState.step
  opts,            \* AppState.transferOptions
  plan,            \* AppState.transferPlan: <<>> (undefined) or <<plan>>
  store,           \* the objects of each backend: backend -> object -> blob
  shadow,          \* what store would hold had this program written nothing
  down,            \* the listing / probe endpoints that currently fail
  extWrites,       \* the concurrent writer's writes so far
  lastScan,        \* history: <<the latest scan's plan>>, kept while the backends,
                   \* the failing endpoints and the options stay as that scan saw them
  rescanned,       \* history: the latest scan repeated one under unchanged conditions
  transferProgress,\* AppState.transferProgress: <<>> or <<progress>>
  progressRef,     \* TransferStep progressRef.current: <<>> or <<progress>>
  isTransferring,  \* TransferStep's useState isTransferring
  appFlags,        \* AppState.isTransferring / isPaused
  abortRef,        \* abortControllerRef.current: 0 (null) or the controller's id
  aborted,         \* the controllers whose signal is aborted
  runs,            \* the invocations of startTransfer
  calls,           \* history: the download / upload calls issued
  clobbered,       \* history: plan records whose upload without an overwrite
                   \* flag set to true replaced an object of the destination
  rendered,        \* state.transferProgress as TransferStep's latest committed
                   \* render read it: <<>> or <<progress>>
  effect,          \* the value the progressRef effect of that render will store
                   \* once it runs: <<>> (no effect pending) or <<progress>>
  listing,         \* one call of SupabaseManager.listFilesFromDatabase([bucket])
                   \* on a bucket of its own: the input and what came back
  meter,           \* one throughput / ETA computation of updateProgress: the
                   \* snapshot's bytes, the elapsed seconds and what came out
  logs,            \* AppState.logs: the entries of the activity log, oldest first
  logger,          \* the addLog calls of one startTransfer: the state.logs its
                   \* closure holds and the outcome of each object so far
  tester,          \* CredentialsStep: testResults, validationErrors, the
                   \* availableBuckets it stored, and the latest connection
                   \* test (<<>> before the first): its input and what it did
  persist,         \* App under updateState: the fields of its state that the
                   \* wizard's first steps write, and the values stored under
                   \* 'app-state' and 'logs' (<<>> when the key is not set)
  looper           \* the for loop of startTransfer on a list of files of its
                   \* own, under the concurrency the options step stored

vars == <<step, opts, plan, store, shadow, down, extWrites, lastScan, rescanned,
          transferProgress, progressRef, isTransferring, appFlags,
          abortRef, aborted, runs, calls, clobbered, rendered, effect,
          listing, meter, logs, logger, tester, persist, looper>>

envVars == <<store, shadow, down, extWrites>>
runVars == <<transferProgress, progressRef, isTransferring, appFlags,
             abortRef, aborted, runs, calls, clobbered, rendered, effect,
             listing, meter, logs, logger, tester, persist, looper>>

(***************************************************************************)
(* Helpers                                                                 *)
(***************************************************************************)
RECURSIVE SumSeq(_)
SumSeq(s) == IF s = <<>> THEN 0 ELSE Head(s) + SumSeq(Tail(s))

RECURSIVE FlatMap(_, _)
FlatMap(F(_), s) == IF s = <<>> THEN <<>> ELSE F(Head(s)) \o FlatMap(F, Tail(s))

Filter(Test(_), s) == SelectSeq(s, Test)

Count(Test(_), s) == Len(SelectSeq(s, Test))

Map(F(_), s) == [i \in 1..Len(s) |-> F(s[i])]

\* the characters parseInt reads as decimal digits, and their values
DigitChars == {"0", "1", "2", "3", "4", "5", "6", "7", "8", "9"}
DigitValue(c) ==
  CASE c = "0" -> 0 [] c = "1" -> 1 [] c = "2" -> 2 [] c = "3" -> 3 [] c = "4" -> 4
    [] c = "5" -> 5 [] c = "6" -> 6 [] c = "7" -> 7 [] c = "8" -> 8 [] c = "9" -> 9

\* parseInt(s) of a string s given as the sequence of its characters: an
\* optional sign, then the decimal digits up to the first other character;
\* NaN (nan true) when there is no digit
ParseInt(s) ==
  LET signed == Len(s) > 0 /\ s[1] \in {"-", "+"}
      rest == IF signed THEN Tail(s) ELSE s
      RECURSIVE Go(_, _, _)
      Go(j, acc, any) ==
        IF j > Len(rest) \/ rest[j] \notin DigitChars
        THEN [nan |-> ~any, value |-> acc]
        ELSE Go(j + 1, acc * 10 + DigitValue(rest[j]), TRUE)
      r == Go(1, 0, FALSE)
  IN [nan |-> r.nan, value |-> IF signed /\ s[1] = "-" THEN 0 - r.value ELSE r.value]

\* parseInt(e.target.value) || 4: NaN and 0 are falsy
StoredConcurrency(input) ==
  IF ParseInt(input).nan \/ ParseInt(input).value = 0 THEN 4 ELSE ParseInt(input).value

(***************************************************************************)
(* Storage adapters: listing and existence probing                         *)
(***************************************************************************)
\* A FileObject as the listers build it (action copy, status pending; error
\* and transferredBytes undefined: "" and -1). probe and mock are history
\* fields: what the planner's destination probe reported for this record, and
\* whether the record is one of the planner's mock files.
FileObject(bucket, key, size) ==
  [bucket |-> bucket, key |-> key, size |-> size, action |-> "copy",
   status |-> "pending", error |-> "", transferredBytes |-> -1,
   probe |-> "none", mock |-> FALSE]

\* the objects a backend holds in a bucket, in key order
Contents(backend, bucket, st) ==
  LET Here(key) == IF st[backend][<<bucket, key>>] # 0
                   THEN <<FileObject(bucket, key, BlobSize(st[backend][<<bucket, key>>]))>>
                   ELSE <<>>
  IN FlatMap(Here, KeyOrder)

\* R2Manager.listFiles: every object of the bucket; [] when the listing throws
R2ListFiles(bucket, st, dn) ==
  IF <<"list", bucket>> \in dn THEN <<>> ELSE Contents("r2", bucket, st)

\* pageSize of tryListViaDB and limit of the list call of listFiles: 1000
\* in the source, scaled down with the buckets of the model
DbPageSize == 2
ListLimit == 2

\* the one call storage.from(bucket).list(prefix || '', { limit: 1000 }) of
\* listFiles, on a bucket holding rows: the first ListLimit entries
StorageList(rows) ==
  SubSeq(rows, 1, IF Len(rows) < ListLimit THEN Len(rows) ELSE ListLimit)

\* the rows .range(from, from + pageSize - 1) selects
DbQuery(rows, from) ==
  SubSeq(rows, from + 1,
         IF Len(rows) < from + DbPageSize THEN Len(rows) ELSE from + DbPageSize)

\* mutant: rows without a name are kept
AllRows(data) == data

\* data.filter(row => row.name): a row without a name has key ""
NamedRows(data) ==
  LET Keep(i) == IF data[i].key # "" THEN <<data[i]>> ELSE <<>>
      RECURSIVE From(_)
      From(i) == IF i > Len(data) THEN <<>> ELSE Keep(i) \o From(i + 1)
  IN From(1)

\* the while (true) loop of tryListViaDB on a bucket holding rows; the query
\* of page failAt errors (0: none does). The rows of the pages read before
\* are already in the collector when the catch returns false. ranges is
\* history: the .range(from, to) arguments of the queries made.
RECURSIVE DbLoop(_, _, _, _, _, _, _)
DbLoop(rows, failAt, from, page, collected, any, ranges) ==
  LET asked == Append(ranges, <<from, from + DbPageSize - 1>>)
  IN IF page = failAt
     THEN [used |-> FALSE, files |-> collected, ranges |-> asked, errored |-> TRUE]
     ELSE LET data == DbQuery(rows, from)
          IN IF Len(data) = 0
             THEN [used |-> any, files |-> collected, ranges |-> asked,
                   errored |-> FALSE]
             ELSE IF Len(data) < DbPageSize
                  THEN [used |-> TRUE, files |-> collected \o NamedRows(data),
                        ranges |-> asked, errored |-> FALSE]
                  ELSE DbLoop(rows, failAt, from + DbPageSize, page + 1,
                              collected \o NamedRows(data), TRUE, asked)

TryListViaDBRows(rows, failAt) == DbLoop(rows, failAt, 0, 1, <<>>, FALSE, <<>>)

\* the body of "for (const bucket of buckets)" of listFilesFromDatabase on a
\* bucket holding the objects rows, whose storage.objects rows are table: DB
\* first, listFiles if the DB path was not used;
\* listFails: the Storage API listing errors and listFiles returns []
ListFromRows(table, rows, failAt, listFails) ==
  LET db == TryListViaDBRows(table, failAt)
      fallback == IF listFails THEN <<>> ELSE StorageList(rows)
  IN [usedDB |-> db.used,
      \* history: what tryListViaDB did
      db |-> db,
      files |-> IF db.used THEN db.files ELSE db.files \o fallback,
      \* history: the calls of listFiles
      fallbackCalls |-> IF db.used THEN 0 ELSE 1]

\* SupabaseManager.listFiles (Storage API): [] when the listing errors
SupabaseListFiles(bucket, st, dn) ==
  IF <<"list", bucket>> \in dn THEN <<>>
  ELSE StorageList(Contents("supabase", bucket, st))

\* SupabaseManager.tryListViaDB: the rows of storage.objects for the bucket;
\* used is false when the query gave no row
TryListViaDB(bucket, st) ==
  TryListViaDBRows(Contents("supabase", bucket, st), 0)

\* SupabaseManager.listFilesFromDatabase([bucket]): DB first, Storage API if
\* the DB path was not used
ListFilesFromDatabase(bucket, st, dn) ==
  LET db == TryListViaDB(bucket, st)
  IN IF db.used THEN db.files ELSE db.files \o SupabaseListFiles(bucket, st, dn)

\* mutant: an error inside the adapter is reported as "exists"
FileExistsErrorAsTrue(backend, obj, st, dn) ==
  IF <<"probe", obj>> \in dn THEN TRUE ELSE st[backend][obj] # 0

\* R2Manager.fileExists / SupabaseManager.fileExists: an error inside the
\* adapter is caught and reported as false
FileExists(backend, obj, st, dn) ==
  IF <<"probe", obj>> \in dn THEN FALSE ELSE st[backend][obj] # 0

\* history: what the probe of obj came to
ProbeOutcome(backend, obj, st, dn) ==
  IF <<"probe", obj>> \in dn THEN "failed"
  ELSE IF st[backend][obj] # 0 THEN "present" ELSE "absent"

(***************************************************************************)
(* Planner: PlanStep.scanFiles                                             *)
(***************************************************************************)
\* mutant: the skip case falls through to overwrite
ConflictActionNoSkip(policy) == "overwrite"

\* mutant: every case assigns skip
ConflictActionAllSkip(policy) == "skip"

\* the switch on conflictPolicy for a file that exists at the destination
ConflictAction(policy) ==
  CASE policy = "skip" -> "skip"
    [] policy = "overwrite-newer" -> "overwrite"
    [] policy = "always-overwrite" -> "overwrite"

\* mutant: the action is assigned from the policy without testing exists
CheckConflictUntested(file, o, st, dn) ==
  LET dest == DestOf(o.direction)
      obj == <<file.bucket, file.key>>
  IN [file EXCEPT !.action = ConflictAction(o.conflictPolicy),
                  !.probe = ProbeOutcome(dest, obj, st, dn)]

\* the body of "for (const file of files)": probe, then assign the action
CheckConflict(file, o, st, dn) ==
  LET dest == DestOf(o.direction)
      obj == <<file.bucket, file.key>>
      exists == FileExists(dest, obj, st, dn)
  IN [file EXCEPT !.action = IF exists THEN ConflictAction(o.conflictPolicy) ELSE @,
                  !.probe = ProbeOutcome(dest, obj, st, dn)]

\* the three mock files added for a bucket that gave no file (sizes in MiB)
MockFiles(bucket) ==
  LET Mock(key, size) == [FileObject(bucket, key, size) EXCEPT !.mock = TRUE]
  IN << Mock("test-file-1.jpg", 5),
        Mock("documents/test-doc.pdf", 2),
        Mock("videos/sample.mp4", 30) >>

\* what the lister returns for one selected bucket
ListBucket(bucket, o, st, dn) ==
  IF o.direction = "supabase-to-r2"
  THEN ListFilesFromDatabase(bucket, st, dn)
  ELSE R2ListFiles(bucket, st, dn)

\* mutant: no filter by file size
NoSizeFilter(files, o) == files

\* the filter by file size
SizeFilter(files, o) ==
  LET Fits(file) == file.size <= o.maxFileSize
  IN Filter(Fits, files)

\* one iteration of "for (let i = 0; i < buckets.length; i++)"
ScanBucket(bucket, o, st, dn) ==
  LET files == SizeFilter(ListBucket(bucket, o, st, dn), o)
      Checked(file) == CheckConflict(file, o, st, dn)
      checked == Map(Checked, files)
  IN checked \o (IF Len(files) = 0 THEN MockFiles(bucket) ELSE <<>>)

\* mutant: the estimate leaves out the files that will be skipped
EstimateWithoutSkipped(files) ==
  LET Size(file) == IF file.action = "skip" THEN 0 ELSE file.size
  IN [num |-> SumSeq(Map(Size, files)), den |-> 10]

\* estimateTransferTime: totalBytes / (10 MiB/s), kept as a fraction
EstimateTransferTime(files) ==
  LET Size(file) == file.size
  IN [num |-> SumSeq(Map(Size, files)), den |-> 10]

\* mutant: allFiles keeps the files of the previous scan
ScanStartKeep(old) == old

\* allFiles at the start of a scan
ScanStart(old) == <<>>

\* scanFiles: the TransferPlan it stores with onUpdate({ transferPlan: plan })
ScanFiles(o, st, dn, old) ==
  LET PerBucket(bucket) == ScanBucket(bucket, o, st, dn)
      allFiles == ScanStart(old) \o FlatMap(PerBucket, o.selectedBuckets)
      Size(file) == file.size
      IsConflict(file) == file.action = "overwrite" \/ file.action = "skip"
  IN [files |-> allFiles,
      totalFiles |-> Len(allFiles),
      totalBytes |-> SumSeq(Map(Size, allFiles)),
      conflictCount |-> Count(IsConflict, allFiles),
      estimatedDuration |-> EstimateTransferTime(allFiles),
      \* history: the options this scan read
      scannedWith |-> o]

(***************************************************************************)
(* Throughput and ETA (utils/storage.ts). A number that comes out of a     *)
(* division is kept as a fraction num / den; den = 0 stands for the        *)
(* Infinity or NaN a division by zero gives.                               *)
(***************************************************************************)
Zero == [num |-> 0, den |-> 1]

\* calculateThroughput(bytes, seconds)
CalculateThroughput(bytes, seconds) ==
  IF seconds > 0 THEN [num |-> bytes, den |-> seconds] ELSE Zero

\* mutant: the guard on throughput is missing
EstimateTimeRemainingUnguarded(totalBytes, transferredBytes, throughput) ==
  LET remainingBytes == totalBytes - transferredBytes
  IN [num |-> remainingBytes * throughput.den, den |-> throughput.num]

\* estimateTimeRemaining(totalBytes, transferredBytes, throughput), for a
\* throughput num / den with den > 0
EstimateTimeRemaining(totalBytes, transferredBytes, throughput) ==
  LET remainingBytes == totalBytes - transferredBytes
  IN IF throughput.num <= 0 THEN Zero
     ELSE [num |-> remainingBytes * throughput.den, den |-> throughput.num]

(***************************************************************************)
(* Initial state                                                           *)
(***************************************************************************)
\* App.tsx initialState, as far as the first steps of the wizard write it
InitialState ==
  [x \in {"step", "tosAccepted", "supabaseCredentials", "r2Credentials",
          "availableBuckets", "logs"} |->
     CASE x = "step" -> "tos"
       [] x = "tosAccepted" -> FALSE
       [] x \in {"supabaseCredentials", "r2Credentials"} -> "c0"
       [] x = "availableBuckets" -> 0
       [] x = "logs" -> <<>>]

\* App.tsx initialState.transferOptions (maxFileSize 2 GiB = 2048 MiB)
InitialOptions ==
  [direction |-> "supabase-to-r2", selectedBuckets |-> <<>>,
   conflictPolicy |-> "skip", concurrency |-> 4, dryRun |-> TRUE,
   maxFileSize |-> 2048]

\* The backends when the program starts: Supabase holds three objects, R2 two;
\* b1/k1 is on both sides with different data.
InitialStore ==
  [b \in Backends |-> [obj \in Objs |->
     IF b = "supabase"
     THEN (CASE obj = <<"b1", "k1">> -> 1 [] obj = <<"b1", "k2">> -> 2
             [] obj = <<"b2", "k1">> -> 2 [] OTHER -> 0)
     ELSE (CASE obj = <<"b1", "k1">> -> 3 [] obj = <<"b2", "k2">> -> 2
             [] OTHER -> 0)]]

Init ==
  /\ step = "options"
  /\ opts = InitialOptions
  /\ plan = <<>>
  /\ store = InitialStore
  /\ shadow = InitialStore
  /\ down = {}
  /\ extWrites = 0
  /\ lastScan = <<>>
  /\ rescanned = FALSE
  /\ transferProgress = <<>>
  /\ progressRef = <<>>
  /\ isTransferring = FALSE
  /\ appFlags = [isTransferring |-> FALSE, isPaused |-> FALSE]
  /\ abortRef = 0
  /\ aborted = {}
  /\ runs = <<>>
  /\ calls = {}
  /\ clobbered = {}
  /\ rendered = <<>>
  /\ effect = <<>>
  /\ listing = [rows |-> <<>>, table |-> <<>>, failAt |-> 0, done |-> FALSE,
                usedDB |-> FALSE, files |-> <<>>, fallbackCalls |-> 0,
                db |-> [files |-> <<>>, ranges |-> <<>>, errored |-> FALSE]]
  /\ meter = [totalBytes |-> 0, transferredBytes |-> 0, elapsedSeconds |-> 0,
              done |-> FALSE, throughput |-> Zero, estimatedTimeRemaining |-> Zero]
  /\ persist = [state |-> InitialState, saved |-> <<>>, savedLogs |-> <<>>]
  /\ tester = [testResults |-> [supabase |-> "null", r2 |-> "null"],
               validationErrors |-> [supabase |-> "", r2 |-> ""],
               availableBuckets |-> [supabase |-> 0, r2 |-> 0],
               last |-> <<>>]
  /\ logs = <<>>
  /\ logger = [phase |-> "idle", paused |-> FALSE, logs |-> <<>>, pc |-> <<>>]
  /\ looper = [concurrency |-> InitialOptions.concurrency, length |-> 0, i |-> 0,
               phase |-> "options", iterations |-> 0, started |-> <<>>]

(***************************************************************************)
(* The environment: a concurrent writer, and endpoints failing and healing *)
(***************************************************************************)
Forget == lastScan' = <<>> /\ rescanned' = FALSE

ExtWrite(b, obj) ==
  /\ extWrites < MaxExtWrites
  /\ store[b][obj] # 3
  /\ store' = [store EXCEPT ![b][obj] = 3]
  /\ shadow' = [shadow EXCEPT ![b][obj] = 3]
  /\ extWrites' = extWrites + 1
  /\ Forget
  /\ UNCHANGED <<step, opts, plan, down>>
  /\ UNCHANGED runVars

EnvFail(f) ==
  /\ f \notin down
  /\ Cardinality(down) < MaxFaults
  /\ down' = down \cup {f}
  /\ Forget
  /\ UNCHANGED <<step, opts, plan, store, shadow, extWrites>>
  /\ UNCHANGED runVars

EnvHeal(f) ==
  /\ f \in down
  /\ down' = down \ {f}
  /\ Forget
  /\ UNCHANGED <<step, opts, plan, store, shadow, extWrites>>
  /\ UNCHANGED runVars

(***************************************************************************)
(* Options step                                                            *)
(***************************************************************************)
\* state.availableBuckets of the source side
SourceBuckets(o) == BucketOrder

SetOptions(o) ==
  /\ step = "options"
  /\ o # opts
  /\ opts' = o
  /\ Forget
  /\ UNCHANGED <<step, plan>>
  /\ UNCHANGED envVars
  /\ UNCHANGED runVars

\* the direction select: the selection is reset
SetDirection(d) ==
  SetOptions([opts EXCEPT !.direction = d, !.selectedBuckets = <<>>])

\* handleBucketSelection(bucket, selected) of a checkbox
HandleBucketSelection(bucket) ==
  LET Other(b) == b # bucket
      selected == \A i \in 1..Len(opts.selectedBuckets) : opts.selectedBuckets[i] # bucket
  IN SetOptions([opts EXCEPT !.selectedBuckets =
                   IF selected THEN Append(@, bucket) ELSE Filter(Other, @)])

SelectAllBuckets == SetOptions([opts EXCEPT !.selectedBuckets = SourceBuckets(opts)])

SetConflictPolicy(p) == SetOptions([opts EXCEPT !.conflictPolicy = p])

SetMaxFileSize(m) == SetOptions([opts EXCEPT !.maxFileSize = m])

SetDryRun(b) == SetOptions([opts EXCEPT !.dryRun = b])

\* the concurrency input: concurrency: parseInt(e.target.value) || 4
SetConcurrency(input) == SetOptions([opts EXCEPT !.concurrency = StoredConcurrency(input)])

(***************************************************************************)
(* Plan step                                                               *)
(***************************************************************************)
\* the (bucket, key, size, action) records and the totals of a plan
PlanView(p) ==
  [files |-> [i \in 1..Len(p.files) |->
                [bucket |-> p.files[i].bucket, key |-> p.files[i].key,
                 size |-> p.files[i].size, action |-> p.files[i].action]],
   totalFiles |-> p.totalFiles, totalBytes |-> p.totalBytes,
   conflictCount |-> p.conflictCount, estimatedDuration |-> p.estimatedDuration]

\* scanFiles run to its end
DoScan ==
  LET old == IF plan = <<>> THEN <<>> ELSE plan[1].files
      new == ScanFiles(opts, store, down, old)
  IN /\ plan' = <<new>>
     /\ lastScan' = <<PlanView(new)>>
     /\ rescanned' = (lastScan # <<>>)

\* Continue to Plan; PlanStep mounts and scans when there is no plan
OptionsNext ==
  /\ step = "options"
  /\ Len(opts.selectedBuckets) > 0
  /\ step' = "plan"
  /\ IF plan = <<>> THEN DoScan ELSE UNCHANGED <<plan, lastScan, rescanned>>
  /\ UNCHANGED opts
  /\ UNCHANGED envVars
  /\ UNCHANGED runVars

\* the Rescan Files button
Rescan ==
  /\ step = "plan"
  /\ plan # <<>>
  /\ DoScan
  /\ UNCHANGED <<step, opts>>
  /\ UNCHANGED envVars
  /\ UNCHANGED runVars

\* the Back button of the plan step: updateState({ step: 'options' }); the
\* plan stays in the state
PlanBack ==
  /\ step = "plan"
  /\ step' = "options"
  /\ UNCHANGED <<opts, plan, lastScan, rescanned>>
  /\ UNCHANGED envVars
  /\ UNCHANGED runVars

\* the Start button of the plan step (canProceed)
PlanNext ==
  /\ step = "plan"
  /\ plan # <<>>
  /\ Len(plan[1].files) > 0
  /\ step' = "transfer"
  /\ UNCHANGED <<opts, plan, lastScan, rescanned>>
  /\ UNCHANGED envVars
  /\ UNCHANGED runVars

(***************************************************************************)
(* Transfer step: the executor                                             *)
(*                                                                         *)
(* The handlers are functions of a record w of the variables they write:   *)
(* step, plan, store, transferProgress, progressRef, isTransferring,       *)
(* appFlags, abortRef, aborted, runs, calls, clobbered.                    *)
(*                                                                         *)
(* A run is one invocation of startTransfer:                               *)
(*   dryRun, direction, concurrency  what its closure read from state      *)
(*   todo     filesToProcess, as indices into plan.files                   *)
(*   i        the loop variable                                            *)
(*   pc       per file of todo: pending, timer, download, upload,          *)
(*            completed, failed, skipped                                   *)
(*   blob     per file, the data its download returned (0: none yet)       *)
(*   returned startTransfer has run to its end                             *)
(*   nStart, nDown, nUp   history, per file: the calls of processFile,     *)
(*            downloadFile and uploadFile so far                           *)
(***************************************************************************)
World ==
  [step |-> step, plan |-> plan, store |-> store,
   transferProgress |-> transferProgress, progressRef |-> progressRef,
   isTransferring |-> isTransferring, appFlags |-> appFlags,
   abortRef |-> abortRef, aborted |-> aborted, runs |-> runs,
   calls |-> calls, clobbered |-> clobbered]

Becomes(w) ==
  /\ step' = w.step
  /\ plan' = w.plan
  /\ store' = w.store
  /\ transferProgress' = w.transferProgress
  /\ progressRef' = w.progressRef
  /\ isTransferring' = w.isTransferring
  /\ appFlags' = w.appFlags
  /\ abortRef' = w.abortRef
  /\ aborted' = w.aborted
  /\ runs' = w.runs
  /\ calls' = w.calls
  /\ clobbered' = w.clobbered
  /\ UNCHANGED <<opts, shadow, down, extWrites, lastScan, rescanned, rendered, effect,
                 listing, meter, logs, logger, tester, persist, looper>>

Terminal(pc) == pc = "completed" \/ pc = "failed" \/ pc = "skipped"

\* updateProgress(type, bytes)
UpdateProgress(w, type, bytes) ==
  IF w.progressRef = <<>> THEN w
  ELSE LET old == w.progressRef[1]
           progress ==
             CASE type = "completed" ->
                    [old EXCEPT !.completedFiles = @ + 1, !.transferredBytes = @ + bytes]
               [] type = "failed" -> [old EXCEPT !.failedFiles = @ + 1]
               [] type = "skipped" -> [old EXCEPT !.skippedFiles = @ + 1]
       IN [w EXCEPT !.progressRef = <<progress>>, !.transferProgress = <<progress>>]

\* filesToProcess = state.transferPlan.files.filter(f => f.action !== 'skip')
FilesToProcess(files) ==
  LET Idx(i) == IF files[i].action # "skip" THEN <<i>> ELSE <<>>
      RECURSIVE From(_)
      From(i) == IF i > Len(files) THEN <<>> ELSE Idx(i) \o From(i + 1)
  IN From(1)

\* the manager a download goes to
DownloadManager(direction) == SourceOf(direction)

\* mutant: the upload goes to the source manager
UploadToSource(direction) == SourceOf(direction)

\* the manager an upload goes to
UploadManager(direction) == DestOf(direction)

\* the upsert option of the upload call: R2Manager.uploadFile takes none
UpsertOption(direction, action) ==
  IF direction = "supabase-to-r2" THEN "none"
  ELSE IF action = "overwrite" THEN "true" ELSE "false"

\* mutant: the dry-run branch is never taken
NeverDryBranch(dryRun) == FALSE

\* whether processFile takes the dry-run branch
TakesDryBranch(dryRun) == dryRun

\* processFile up to its first await, for file k of run r. The skip branch
\* has no await: it runs to its end at once.
ProcessFileStart(w, r, k) ==
  LET run == w.runs[r]
      idx == run.todo[k]
  IN IF TakesDryBranch(run.dryRun)
     THEN [w EXCEPT !.runs[r].pc[k] = "timer", !.runs[r].nStart[k] = @ + 1]
     ELSE IF w.plan[1].files[idx].action = "skip"
     THEN [UpdateProgress(w, "skipped", 0) EXCEPT !.runs[r].pc[k] = "skipped",
                                                  !.runs[r].nStart[k] = @ + 1]
     ELSE [w EXCEPT !.runs[r].pc[k] = "download",
                    !.runs[r].nStart[k] = @ + 1,
                    !.runs[r].nDown[k] = @ + 1,
                    !.calls = @ \cup {[op |-> "download", run |-> r, idx |-> idx,
                                       backend |-> DownloadManager(run.direction),
                                       upsert |-> "none"]}]

\* the end of startTransfer: onComplete(), setIsTransferring(false),
\* onUpdate({ isTransferring: false })
Finish(w, r) ==
  [w EXCEPT !.step = "complete",
            !.isTransferring = FALSE,
            !.appFlags.isTransferring = FALSE,
            !.runs[r].returned = TRUE]

\* mutant: the loop does not wait for the batch
BatchNotAwaited(run) == TRUE

\* whether every file of the batch in flight has settled
BatchSettled(run) ==
  \A k \in 1..Len(run.todo) :
    (k > run.i /\ k <= run.i + run.concurrency) => Terminal(run.pc[k])

\* the for loop from its head: the bound, the abort check, then
\* batch = filesToProcess.slice(i, i + concurrency), batch.map(processFile)
\* and, once Promise.allSettled(batchPromises) has resolved, i += concurrency
RECURSIVE LoopHead(_, _)
LoopHead(w, r) ==
  LET run == w.runs[r]
      last == IF run.i + run.concurrency < Len(run.todo)
              THEN run.i + run.concurrency ELSE Len(run.todo)
      RECURSIVE Go(_, _)
      Go(ww, k) == IF k > last THEN ww ELSE Go(ProcessFileStart(ww, r, k), k + 1)
      started == Go(w, run.i + 1)
  IN IF run.i < Len(run.todo)
     THEN IF w.abortRef # 0 /\ w.abortRef \in w.aborted
          THEN Finish(w, r)
          ELSE IF BatchSettled(started.runs[r])
               THEN LoopHead([started EXCEPT !.runs[r].i = @ + run.concurrency], r)
               ELSE started
     ELSE Finish(w, r)

\* Promise.allSettled(batchPromises) resolved: i += concurrency
ContinueLoop(w, r) ==
  LoopHead([w EXCEPT !.runs[r].i = @ + w.runs[r].concurrency], r)

\* mutant: a failure ends the run, as an exception escaping the batch would
SettleFailureEndsRun(w, r, k, outcome) ==
  LET file == w.plan[1].files[w.runs[r].todo[k]]
      w1 == UpdateProgress(w, outcome, IF outcome = "completed" THEN file.size ELSE 0)
      w2 == [w1 EXCEPT !.runs[r].pc[k] = outcome]
  IN IF outcome = "failed" THEN Finish(w2, r)
     ELSE IF BatchSettled(w2.runs[r]) THEN ContinueLoop(w2, r) ELSE w2

\* processFile of file k of run r comes to its end with the given outcome;
\* when it is the last of its batch, the loop goes on in the same turn
Settle(w, r, k, outcome) ==
  LET file == w.plan[1].files[w.runs[r].todo[k]]
      w1 == UpdateProgress(w, outcome, IF outcome = "completed" THEN file.size ELSE 0)
      w2 == [w1 EXCEPT !.runs[r].pc[k] = outcome]
  IN IF BatchSettled(w2.runs[r]) THEN ContinueLoop(w2, r) ELSE w2

\* startTransfer, up to its first await (to its end when nothing is to process)
StartTransferBody(w, o) ==
  LET p == w.plan[1]
      r == Len(w.runs) + 1
      progress == [totalFiles |-> Len(p.files), completedFiles |-> 0,
                   failedFiles |-> 0, skippedFiles |-> 0,
                   totalBytes |-> p.totalBytes, transferredBytes |-> 0]
      todo == FilesToProcess(p.files)
      run == [dryRun |-> o.dryRun, direction |-> o.direction,
              concurrency |-> o.concurrency, todo |-> todo, i |-> 0,
              pc |-> [k \in 1..Len(todo) |-> "pending"],
              blob |-> [k \in 1..Len(todo) |-> 0],
              nStart |-> [k \in 1..Len(todo) |-> 0],
              nDown |-> [k \in 1..Len(todo) |-> 0],
              nUp |-> [k \in 1..Len(todo) |-> 0],
              returned |-> FALSE, threw |-> FALSE, topLevelErrors |-> 0]
      w1 == [w EXCEPT !.isTransferring = TRUE,
                      !.appFlags = [isTransferring |-> TRUE, isPaused |-> FALSE],
                      !.abortRef = r,
                      !.transferProgress = <<progress>>,
                      !.progressRef = <<progress>>,
                      !.runs = Append(@, run)]
  IN LoopHead(w1, r)

\* mutant: the catch block goes on to onComplete()
CatchAdvances(w, r) ==
  [w EXCEPT !.runs[r].topLevelErrors = @ + 1, !.step = "complete"]

\* the catch block of startTransfer: addLog('error', 'Transfer failed: ...')
Catch(w, r) == [w EXCEPT !.runs[r].topLevelErrors = @ + 1]

\* startTransfer when the construction of a manager throws: the try block is
\* left before the loop, the catch block runs, then setIsTransferring(false)
\* and onUpdate({ isTransferring: false }). The run has no file to process.
StartTransferThrows(w, o) ==
  LET p == w.plan[1]
      r == Len(w.runs) + 1
      progress == [totalFiles |-> Len(p.files), completedFiles |-> 0,
                   failedFiles |-> 0, skippedFiles |-> 0,
                   totalBytes |-> p.totalBytes, transferredBytes |-> 0]
      run == [dryRun |-> o.dryRun, direction |-> o.direction,
              concurrency |-> o.concurrency, todo |-> <<>>, i |-> 0,
              pc |-> <<>>, blob |-> <<>>, nStart |-> <<>>, nDown |-> <<>>, nUp |-> <<>>,
              returned |-> FALSE, threw |-> TRUE, topLevelErrors |-> 0]
      w1 == [w EXCEPT !.isTransferring = TRUE,
                      !.appFlags = [isTransferring |-> TRUE, isPaused |-> FALSE],
                      !.abortRef = r,
                      !.transferProgress = <<progress>>,
                      !.progressRef = <<progress>>,
                      !.runs = Append(@, run)]
  IN [Catch(w1, r) EXCEPT !.isTransferring = FALSE,
                          !.appFlags.isTransferring = FALSE]

(***************************************************************************)
(* Transfer step: the controls and the completions                         *)
(***************************************************************************)
\* the Start button is rendered
StartShown ==
  transferProgress = <<>> \/ (~isTransferring /\ ~appFlags.isPaused)

StartTransfer ==
  /\ step = "transfer"
  /\ plan # <<>>
  /\ StartShown
  /\ Len(runs) < MaxRuns
  /\ Becomes(StartTransferBody(World, opts))

\* the Start button, pressed when a manager cannot be constructed from the
\* credentials in the state
StartTransferFails ==
  /\ step = "transfer"
  /\ plan # <<>>
  /\ StartShown
  /\ Len(runs) < MaxRuns
  /\ Becomes(StartTransferThrows(World, opts))

\* resumeTransfer: startTransfer again
ResumeTransfer ==
  /\ step = "transfer"
  /\ plan # <<>>
  /\ transferProgress # <<>>
  /\ appFlags.isPaused
  /\ Len(runs) < MaxRuns
  /\ Becomes(StartTransferBody(World, opts))

\* abortControllerRef.current.abort()
Abort(w) ==
  IF w.abortRef # 0 THEN [w EXCEPT !.aborted = @ \cup {w.abortRef}] ELSE w

PauseTransfer ==
  /\ step = "transfer"
  /\ transferProgress # <<>>
  /\ isTransferring
  /\ Becomes([Abort(World) EXCEPT
                !.appFlags = [isTransferring |-> FALSE, isPaused |-> TRUE],
                !.isTransferring = FALSE])

CancelTransfer ==
  /\ step = "transfer"
  /\ transferProgress # <<>>
  /\ isTransferring \/ appFlags.isPaused
  /\ Becomes([Abort(World) EXCEPT
                !.appFlags = [isTransferring |-> FALSE, isPaused |-> FALSE],
                !.isTransferring = FALSE])

\* the variables a render of TransferStep and its effect leave alone
notViewVars == <<step, opts, plan, store, shadow, down, extWrites, lastScan, rescanned,
                 transferProgress, isTransferring, appFlags,
                 abortRef, aborted, runs, calls, clobbered, listing, meter,
                 logs, logger, tester, persist, looper>>

\* TransferStep renders with a new state.transferProgress and commits: the
\* effect of the previous render, if it has not run yet, runs first; the
\* effect of this render (its dependency changed) is left to run later
Render ==
  /\ step = "transfer"
  /\ transferProgress # rendered
  /\ rendered' = transferProgress
  /\ progressRef' = IF effect # <<>> THEN effect ELSE progressRef
  /\ effect' = transferProgress
  /\ UNCHANGED notViewVars

\* the effect runs: progressRef.current = state.transferProgress
FlushEffect ==
  /\ step = "transfer"
  /\ effect # <<>>
  /\ progressRef' = effect
  /\ effect' = <<>>
  /\ UNCHANGED rendered
  /\ UNCHANGED notViewVars

InFlight(r, k, pc) == r \in 1..Len(runs) /\ k \in 1..Len(runs[r].todo) /\ runs[r].pc[k] = pc

\* the 100 ms timer of a dry-run processFile fires
TimerFires(r, k) ==
  /\ InFlight(r, k, "timer")
  /\ Becomes(Settle(World, r, k, "completed"))

FileOf(r, k) == plan[1].files[runs[r].todo[k]]
ObjOf(r, k) == <<FileOf(r, k).bucket, FileOf(r, k).key>>

\* downloadFile resolved: the upload is issued
DownloadOk(r, k) ==
  /\ InFlight(r, k, "download")
  /\ ObjOf(r, k) \in Objs
  /\ store[SourceOf(runs[r].direction)][ObjOf(r, k)] # 0
  /\ Becomes([World EXCEPT
       !.runs[r].pc[k] = "upload",
       !.runs[r].nUp[k] = @ + 1,
       !.runs[r].blob[k] = store[SourceOf(runs[r].direction)][ObjOf(r, k)],
       !.calls = @ \cup {[op |-> "upload", run |-> r, idx |-> runs[r].todo[k],
                          backend |-> UploadManager(runs[r].direction),
                          upsert |-> UpsertOption(runs[r].direction, FileOf(r, k).action)]}])

\* mutant: a failed download is tried once more
DownloadFailsRetried(r, k) ==
  /\ InFlight(r, k, "download")
  /\ IF runs[r].nDown[k] < 2
     THEN Becomes([World EXCEPT !.runs[r].nDown[k] = @ + 1])
     ELSE Becomes(Settle(World, r, k, "failed"))

\* downloadFile threw: the catch of processFile
DownloadFails(r, k) ==
  /\ InFlight(r, k, "download")
  /\ Becomes(Settle(World, r, k, "failed"))

\* whether the destination accepts the write: Supabase refuses to replace an
\* object unless upsert is true; a PutObject to R2 replaces
Accepts(backend, upsert, existing) ==
  backend = "r2" \/ upsert = "true" \/ existing = 0

\* uploadFile returned success
UploadOk(r, k) ==
  LET run == runs[r]
      idx == run.todo[k]
      dest == UploadManager(run.direction)
      obj == ObjOf(r, k)
      upsert == UpsertOption(run.direction, FileOf(r, k).action)
      w1 == [World EXCEPT
               !.store[dest][obj] = run.blob[k],
               !.clobbered = IF store[dest][obj] # 0 /\ upsert # "true"
                                /\ FileOf(r, k).action = "copy"
                             THEN @ \cup {idx} ELSE @,
               \* onProgress of the R2 upload: Math.round(file.size * progress)
               !.plan[1].files[idx].transferredBytes =
                  IF run.direction = "supabase-to-r2" THEN FileOf(r, k).size ELSE @]
  IN /\ InFlight(r, k, "upload")
     /\ Accepts(dest, upsert, store[dest][obj])
     /\ Becomes(Settle(w1, r, k, "completed"))

\* uploadFile returned { success: false }: processFile throws and catches
UploadFails(r, k) ==
  /\ InFlight(r, k, "upload")
  /\ Becomes(Settle(World, r, k, "failed"))

(***************************************************************************)
(* The Supabase lister on a bucket of its own                              *)
(***************************************************************************)
\* the keys the bucket can hold, in name order
ListKeyOrder == <<"o1", "o2", "o3", "o4", "o5">>

\* the bucket holds the objects keys (each of 1 MiB)
RowsOf(keys) ==
  LET Row(key) == IF key \in keys THEN <<FileObject("b1", key, 1)>> ELSE <<>>
  IN FlatMap(Row, ListKeyOrder)

notListVars == <<step, opts, plan, store, shadow, down, extWrites, lastScan, rescanned,
                 transferProgress, progressRef, isTransferring, appFlags,
                 abortRef, aborted, runs, calls, clobbered, rendered, effect, meter,
                 logs, logger, tester, persist, looper>>

\* the storage.objects rows of a bucket holding the objects rows: theirs,
\* and a row without a name as row number at (0: no such row)
WithNameless(rows, at) ==
  IF at = 0 \/ at > Len(rows) + 1 THEN rows
  ELSE SubSeq(rows, 1, at - 1) \o <<FileObject("b1", "", 0)>>
         \o SubSeq(rows, at, Len(rows))

\* the bucket is filled and the page at which the storage.objects query
\* errors is fixed
ListSetup(keys, nameless, failAt) ==
  /\ listing' = [rows |-> RowsOf(keys),
                 table |-> WithNameless(RowsOf(keys), nameless),
                 failAt |-> failAt, done |-> FALSE,
                 usedDB |-> FALSE, files |-> <<>>, fallbackCalls |-> 0,
                 db |-> [files |-> <<>>, ranges |-> <<>>, errored |-> FALSE]]
  /\ listing' # listing
  /\ UNCHANGED notListVars

\* listFilesFromDatabase([bucket]) runs
ListCall ==
  LET out == ListFromRows(listing.table, listing.rows, listing.failAt, FALSE)
  IN /\ ~listing.done
     /\ listing' = [listing EXCEPT !.done = TRUE, !.usedDB = out.usedDB,
                                   !.files = out.files,
                                   !.fallbackCalls = out.fallbackCalls,
                                   !.db = [files |-> out.db.files,
                                           ranges |-> out.db.ranges,
                                           errored |-> out.db.errored]]
     /\ UNCHANGED notListVars

(***************************************************************************)
(* The throughput / ETA lines of updateProgress on a snapshot of their own *)
(***************************************************************************)
notMeterVars == <<step, opts, plan, store, shadow, down, extWrites, lastScan, rescanned,
                  transferProgress, progressRef, isTransferring, appFlags,
                  abortRef, aborted, runs, calls, clobbered, rendered, effect, listing,
                  logs, logger, tester, persist, looper>>

\* a snapshot after the switch of updateProgress, and the time since
\* startTime (negative when the clock was set back)
MeterSetup(totalBytes, transferredBytes, elapsedSeconds) ==
  /\ meter' = [totalBytes |-> totalBytes, transferredBytes |-> transferredBytes,
               elapsedSeconds |-> elapsedSeconds, done |-> FALSE,
               throughput |-> Zero, estimatedTimeRemaining |-> Zero]
  /\ meter' # meter
  /\ UNCHANGED notMeterVars

\* progress.throughput = calculateThroughput(...);
\* progress.estimatedTimeRemaining = estimateTimeRemaining(...)
MeterUpdate ==
  LET throughput == CalculateThroughput(meter.transferredBytes, meter.elapsedSeconds)
  IN /\ ~meter.done
     /\ meter' = [meter EXCEPT
          !.done = TRUE,
          !.throughput = throughput,
          !.estimatedTimeRemaining =
             EstimateTimeRemaining(meter.totalBytes, meter.transferredBytes, throughput)]
     /\ UNCHANGED notMeterVars

(***************************************************************************)
(* The activity log (App.addLog) under the addLog calls of one run of       *)
(* TransferStep. startTransfer and the processFile calls it makes reach    *)
(* addLog through the props of the render in which startTransfer was       *)
(* invoked: one closure of App, holding the state.logs of that render.     *)
(***************************************************************************)
\* the objects a run of the log model processes, in plan order
LogObjects == << <<"b1", "k1">>, <<"b1", "k2">>, <<"b2", "k1">> >>

\* a LogEntry: its level, its message (by kind) and the <<bucket, key>> the
\* message names, <<>> when it names none
LogEntry(level, message, object) ==
  [level |-> level, message |-> message, object |-> object]

\* addLog through a closure whose state.logs is closureLogs:
\* newLogs = [...state.logs, newLog]; updateState({ logs: newLogs })
AddLog(closureLogs, entry) == Append(closureLogs, entry)

\* the addLog call at the end of processFile for the given outcome
OutcomeLog(object, outcome) ==
  IF outcome = "failed" THEN LogEntry("error", "Failed to transfer", object)
  ELSE LogEntry("success", "Transferred", object)

notLogVars == <<step, opts, plan, store, shadow, down, extWrites, lastScan, rescanned,
                transferProgress, progressRef, isTransferring, appFlags,
                abortRef, aborted, runs, calls, clobbered, rendered, effect,
                listing, meter, tester, persist, looper>>

\* startTransfer of a live run of the first n objects, all started at once:
\* addLog('info', 'Starting ...')
LogStart(n) ==
  /\ logger.phase # "running"
  /\ Len(logs) < MaxLogs
  /\ logger' = [phase |-> "running", paused |-> FALSE, logs |-> logs,
                pc |-> [k \in 1..n |-> "pending"]]
  /\ logs' = AddLog(logs, LogEntry("info", "Starting", <<>>))
  /\ UNCHANGED notLogVars

\* processFile of object k ends with the given outcome and logs it; after
\* the last one startTransfer goes on to its two closing addLog calls, of
\* which the second one's entry is the one that stays
LogSettle(k, outcome) ==
  LET pc == [logger.pc EXCEPT ![k] = outcome]
      logs1 == AddLog(logger.logs, OutcomeLog(LogObjects[k], outcome))
      logs3 == AddLog(logger.logs, LogEntry("info", "Results", <<>>))
      last == \A k2 \in 1..Len(pc) : pc[k2] # "pending"
  IN /\ logger.phase = "running"
     /\ k \in 1..Len(logger.pc)
     /\ logger.pc[k] = "pending"
     /\ logger' = [logger EXCEPT !.pc = pc,
                                 !.phase = IF last THEN "ended" ELSE @]
     /\ logs' = IF last THEN logs3 ELSE logs1
     /\ UNCHANGED notLogVars

\* pauseTransfer, a handler of the latest render, while the objects are in
\* flight: addLog('warning', 'Transfer paused')
LogPause ==
  /\ logger.phase = "running"
  /\ ~logger.paused
  /\ logger' = [logger EXCEPT !.paused = TRUE]
  /\ logs' = AddLog(logs, LogEntry("warning", "Transfer paused", <<>>))
  /\ UNCHANGED notLogVars

(***************************************************************************)
(* App.updateState and what it hands to storage.saveAppState. A state or   *)
(* an update is a function from field names to values; a credentials value *)
(* is named by a string ("c0": the ones of initialState).                  *)
(***************************************************************************)
CredentialValues == {"c0", "c1", "c2"}
CredentialFields == {"supabaseCredentials", "r2Credentials"}
WizardSteps == <<"tos", "credentials", "options", "plan", "transfer", "complete">>

\* the fields of an update that is a function f, without the fields in gone
Without(f, gone) == [x \in DOMAIN f \ gone |-> f[x]]

\* mutant: the update is saved as it is
StateToSaveAll(updates) == updates

\* stateToSave: a copy of the update, without the credentials unless the
\* update sets tosAccepted to true
StateToSave(updates) ==
  IF "tosAccepted" \in DOMAIN updates /\ updates["tosAccepted"] = TRUE
  THEN updates
  ELSE Without(updates, CredentialFields)

\* updateState(updates): newState = { ...prevState, ...updates };
\* storage.saveAppState(stateToSave) sets the 'app-state' key, and
\* storage.saveLogs(updates.logs) the 'logs' key when the update has logs
UpdateState(p, updates) ==
  [state |-> [x \in DOMAIN p.state \cup DOMAIN updates |->
                IF x \in DOMAIN updates THEN updates[x] ELSE p.state[x]],
   saved |-> <<StateToSave(updates)>>,
   savedLogs |-> IF "logs" \in DOMAIN updates THEN <<updates["logs"]>> ELSE p.savedLogs]

notPersistVars == <<step, opts, plan, store, shadow, down, extWrites, lastScan, rescanned,
                    transferProgress, progressRef, isTransferring, appFlags,
                    abortRef, aborted, runs, calls, clobbered, rendered, effect,
                    listing, meter, logs, logger, tester, looper>>

Updates(updates) ==
  /\ persist' = UpdateState(persist, updates)
  /\ persist' # persist
  /\ UNCHANGED notPersistVars

\* TOSModal onAccept
TosAccept ==
  /\ persist.state["step"] = "tos"
  /\ Updates([x \in {"tosAccepted", "step"} |->
                IF x = "step" THEN "credentials" ELSE TRUE])

\* the inputs of the credentials step
EditCredentials(field, value) ==
  /\ persist.state["step"] = "credentials"
  /\ Updates([x \in {field} |-> value])

\* the onUpdate({ availableBuckets }) of a connection test
BucketsFound(found) ==
  /\ persist.state["step"] = "credentials"
  /\ Updates([x \in {"availableBuckets"} |-> found])

\* onNext / onBack of a step: updateState({ step })
GoTo(i) ==
  /\ i \in 1..Len(WizardSteps)
  /\ \E j \in 2..Len(WizardSteps) :
       /\ persist.state["step"] = WizardSteps[j]
       /\ (i = j + 1 \/ (i = j - 1 /\ i >= 2 /\ j < Len(WizardSteps)))
  /\ Updates([x \in {"step"} |-> WizardSteps[i]])

\* CompleteStep onRestart
Restart ==
  /\ persist.state["step"] = "complete"
  /\ Updates([x \in {"step", "transferPlan", "transferProgress"} |->
                IF x = "step" THEN "credentials" ELSE 0])

\* addLog called by a step: updateState({ logs: [...state.logs, newLog] })
LogsUpdated(message) ==
  /\ persist.state["tosAccepted"]
  /\ Len(persist.state["logs"]) < MaxLogs
  /\ Updates([x \in {"logs"} |->
                AddLog(persist.state["logs"], LogEntry("info", message, <<>>))])

\* the entry clearData logs when nothing threw
ClearedEntry == LogEntry("info", "All application data cleared successfully", <<>>)

\* clearData: await storage.clearAll(), setState(initialState), then
\* addLog('info', 'All application data cleared successfully'). The addLog
\* it calls is the one of the render whose clearData was handed to the
\* Clear All Data button: its state.logs are the logs of before the click.
ClearData ==
  /\ persist.state["step"] = "complete"
  /\ Len(persist.state["logs"]) <= MaxLogs
  /\ persist' = UpdateState([state |-> InitialState, saved |-> <<>>, savedLogs |-> <<>>],
                            [x \in {"logs"} |->
                               AddLog(persist.state["logs"], ClearedEntry)])
  /\ UNCHANGED notPersistVars

(***************************************************************************)
(* Credentials step: input validation, retryWithBackoff and the two        *)
(* connection tests. The credentials are drawn from strings that take each *)
(* branch of the validators; a backend is given by the number of calls of  *)
(* its testConnection that fail before one succeeds.                       *)
(***************************************************************************)
SupabaseUrls == {"", "https://p.example.com", "http://p.supabase.co", "https://p.supabase.co"}
SupabaseKeys == {"", "abc", "eyJ-short", "eyJ-100-chars"}
AccountIds == {"", "short", "32-chars"}
AccessKeyIds == {"", "ak"}
SecretAccessKeys == {"", "sk"}

\* validateSupabaseUrl
ValidateSupabaseUrl(url) ==
  IF url = "" THEN "Project URL is required"
  ELSE IF url \notin {"http://p.supabase.co", "https://p.supabase.co"}
  THEN "URL should be a Supabase project URL (*.supabase.co)"
  ELSE IF url \notin {"https://p.example.com", "https://p.supabase.co"}
  THEN "URL must start with https://"
  ELSE ""

\* validateSupabaseKey
ValidateSupabaseKey(key) ==
  IF key = "" THEN "Service Role Key is required"
  ELSE IF key \notin {"eyJ-short", "eyJ-100-chars"}
  THEN "Service key should be a JWT token starting with eyJ"
  ELSE IF key # "eyJ-100-chars" THEN "Service key appears to be incomplete"
  ELSE ""

\* validateR2Credentials
ValidateR2Credentials(creds) ==
  IF creds.accountId = "" THEN "Account ID is required"
  ELSE IF creds.accessKeyId = "" THEN "Access Key ID is required"
  ELSE IF creds.secretAccessKey = "" THEN "Secret Access Key is required"
  ELSE IF creds.accountId # "32-chars" THEN "Account ID should be 32 characters long"
  ELSE ""

\* the defaults of retryWithBackoff's parameters
MaxRetries == 2
BaseDelay == 1000

RECURSIVE Pow2(_)
Pow2(n) == IF n = 0 THEN 1 ELSE 2 * Pow2(n - 1)

\* retryWithBackoff(fn) for an fn whose first `failures` calls throw: whether
\* it returned, the calls of fn it made and the delays it waited, in ms
RECURSIVE RetryLoop(_, _, _)
RetryLoop(failures, attempt, delays) ==
  IF attempt >= failures THEN [ok |-> TRUE, attempts |-> attempt + 1, delays |-> delays]
  ELSE IF attempt = MaxRetries
  THEN [ok |-> FALSE, attempts |-> attempt + 1, delays |-> delays]
  ELSE RetryLoop(failures, attempt + 1, Append(delays, BaseDelay * Pow2(attempt)))

RetryWithBackoff(failures) == RetryLoop(failures, 0, <<>>)

\* the test a handler has run: nothing called yet
TestRecord(t, backend, error, failures) ==
  [backend |-> backend, error |-> error, failures |-> failures,
   attempts |-> 0, listCalls |-> 0, delays |-> <<>>, validationLogs |-> 0,
   before |-> [testResults |-> t.testResults, availableBuckets |-> t.availableBuckets]]

\* mutant: the handler goes on whatever the validators said
RejectsNothing(error) == FALSE

\* if (urlError || keyError) / if (validationError)
Rejects(error) == error # ""

\* the branch of a handler for credentials that fail validation:
\* setValidationErrors, addLog('error', 'Validation failed: ...'), return
Rejected(t, backend, test) ==
  [t EXCEPT !.validationErrors[backend] = test.error,
            !.last = <<[test EXCEPT !.validationLogs = 1]>>]

\* testSupabaseConnection: testConnection and then listBuckets, each under
\* retryWithBackoff (listBuckets catches its errors: its first call returns)
TestSupabaseConnection(t, creds, failures, found) ==
  LET urlError == ValidateSupabaseUrl(creds.url)
      keyError == ValidateSupabaseKey(creds.serviceKey)
      test == TestRecord(t, "supabase", IF urlError # "" THEN urlError ELSE keyError,
                         failures)
      probe == RetryWithBackoff(failures)
      list == RetryWithBackoff(0)
  IN IF Rejects(test.error) THEN Rejected(t, "supabase", test)
     ELSE IF probe.ok
     THEN [t EXCEPT !.validationErrors.supabase = "",
                    !.testResults.supabase = "true",
                    !.availableBuckets.supabase = found,
                    !.last = <<[test EXCEPT !.attempts = probe.attempts,
                                            !.delays = probe.delays \o list.delays,
                                            !.listCalls = list.attempts]>>]
     ELSE [t EXCEPT !.validationErrors.supabase = "",
                    !.testResults.supabase = "false",
                    !.last = <<[test EXCEPT !.attempts = probe.attempts,
                                            !.delays = probe.delays]>>]

\* testR2Connection: one testConnection call, then one listBuckets call
TestR2Connection(t, creds, failures, found) ==
  LET test == TestRecord(t, "r2", ValidateR2Credentials(creds), failures)
  IN IF Rejects(test.error) THEN Rejected(t, "r2", test)
     ELSE IF failures = 0
     THEN [t EXCEPT !.validationErrors.r2 = "",
                    !.testResults.r2 = "true",
                    !.availableBuckets.r2 = found,
                    !.last = <<[test EXCEPT !.attempts = 1, !.listCalls = 1]>>]
     ELSE [t EXCEPT !.validationErrors.r2 = "",
                    !.testResults.r2 = "false",
                    !.last = <<[test EXCEPT !.attempts = 1]>>]

notTestVars == <<step, opts, plan, store, shadow, down, extWrites, lastScan, rescanned,
                 transferProgress, progressRef, isTransferring, appFlags,
                 abortRef, aborted, runs, calls, clobbered, rendered, effect,
                 listing, meter, logs, logger, persist, looper>>

\* the Test Connection button of the Supabase card
TestSupabase(creds, failures, found) ==
  /\ tester' = TestSupabaseConnection(tester, creds, failures, found)
  /\ tester' # tester
  /\ UNCHANGED notTestVars

\* the Test Connection button of the R2 card
TestR2(creds, failures, found) ==
  /\ tester' = TestR2Connection(tester, creds, failures, found)
  /\ tester' # tester
  /\ UNCHANGED notTestVars

(***************************************************************************)
(* The for loop of startTransfer on a list of files of its own, under      *)
(* every value the concurrency input can store. Each processFile settles   *)
(* before the loop is looked at again.                                     *)
(***************************************************************************)
\* the values of the concurrency input (type="number": a number or empty),
\* as sequences of characters
ConcurrencyInputs ==
  { <<>>, <<"0">>, <<"1">>, <<"2">>, <<"3">>, <<"1", "0">>, <<"2", ".", "5">>,
    <<"0", ".", "5">>, <<"-", "1">>, <<"-", "2">>, <<"-", "0">> }

\* filesToProcess.slice(start, end) on a list of the given length, as the
\* positions (from 1) of the files it returns
Slice(length, start, end) ==
  LET Clamp(x) == IF x < 0 THEN (IF length + x < 0 THEN 0 ELSE length + x)
                  ELSE IF x > length THEN length ELSE x
  IN [j \in 1..(Clamp(end) - Clamp(start)) |-> Clamp(start) + j]

notLoopVars == <<step, opts, plan, store, shadow, down, extWrites, lastScan, rescanned,
                 transferProgress, progressRef, isTransferring, appFlags,
                 abortRef, aborted, runs, calls, clobbered, rendered, effect,
                 listing, meter, logs, logger, tester, persist>>

\* the concurrency input changes
TypeConcurrency(input) ==
  /\ looper.phase = "options"
  /\ looper' = [looper EXCEPT !.concurrency = StoredConcurrency(input)]
  /\ looper' # looper
  /\ UNCHANGED notLoopVars

\* startTransfer with length files to process: let i = 0
LoopStart(length) ==
  /\ looper.phase = "options"
  /\ looper' = [looper EXCEPT !.phase = "loop", !.length = length, !.i = 0,
                              !.iterations = 0, !.started = <<>>]
  /\ UNCHANGED notLoopVars

\* one pass of the loop: the test i < filesToProcess.length, the batch
\* filesToProcess.slice(i, i + concurrency), processFile for each file of
\* it, await Promise.allSettled, i += concurrency
LoopPass ==
  /\ looper.phase = "loop"
  /\ looper.iterations < MaxIterations
  /\ looper' =
       IF looper.i < looper.length
       THEN [looper EXCEPT
               !.started = @ \o Slice(looper.length, looper.i, looper.i + looper.concurrency),
               !.i = @ + looper.concurrency,
               !.iterations = @ + 1]
       ELSE [looper EXCEPT !.phase = "returned"]
  /\ UNCHANGED notLoopVars

\* back to the options step for another run
LoopReset ==
  /\ looper.phase = "returned"
  /\ looper' = [looper EXCEPT !.phase = "options", !.length = 0, !.i = 0,
                              !.iterations = 0, !.started = <<>>]
  /\ UNCHANGED notLoopVars

(***************************************************************************)
(* Specifications                                                          *)
(***************************************************************************)
RunIds == 1..MaxRuns
FileIds == 1..5

Environment ==
  \/ \E b \in Backends, obj \in Objs : ExtWrite(b, obj)
  \/ \E f \in Faults : EnvFail(f)
  \/ \E f \in Faults : EnvHeal(f)

Completions ==
  \/ \E r \in RunIds, k \in FileIds : TimerFires(r, k)
  \/ \E r \in RunIds, k \in FileIds : DownloadOk(r, k)
  \/ \E r \in RunIds, k \in FileIds : DownloadFails(r, k)
  \/ \E r \in RunIds, k \in FileIds : UploadOk(r, k)
  \/ \E r \in RunIds, k \in FileIds : UploadFails(r, k)

\* the options the executor reads, set before the plan is made
RunOptions ==
  \/ \E d \in Directions : SetDirection(d)
  \/ SelectAllBuckets
  \/ \E p \in Policies : SetConflictPolicy(p)
  \/ \E b \in BOOLEAN : SetDryRun(b)
  \/ \E c \in ConcurrencyChoices : SetConcurrency(c)

\* planning: the options the planner reads, the scan, the environment
NextPlan ==
  \/ \E d \in Directions : SetDirection(d)
  \/ \E b \in Buckets : HandleBucketSelection(b)
  \/ \E p \in Policies : SetConflictPolicy(p)
  \/ \E m \in MaxFileSizeChoices : SetMaxFileSize(m)
  \/ OptionsNext
  \/ Rescan
  \/ Environment

SpecPlan == Init /\ [][NextPlan]_vars

\* one run from start to end, with a concurrent writer creating objects
NextRun ==
  \/ RunOptions
  \/ OptionsNext
  \/ PlanNext
  \/ \E b \in Backends, obj \in RaceObjs : ExtWrite(b, obj)
  \/ StartTransfer
  \/ Completions
  \/ Render
  \/ FlushEffect

SpecRun == Init /\ [][NextRun]_vars

\* runs of a plan of bucket b1 under the controls: start, pause, resume, cancel
NextControl ==
  \/ \E d \in Directions : SetDirection(d)
  \/ HandleBucketSelection("b1")
  \/ \E p \in Policies : SetConflictPolicy(p)
  \/ \E b \in BOOLEAN : SetDryRun(b)
  \/ \E c \in ConcurrencyChoices : SetConcurrency(c)
  \/ OptionsNext
  \/ PlanNext
  \/ StartTransfer
  \/ PauseTransfer
  \/ ResumeTransfer
  \/ CancelTransfer
  \/ Completions

SpecControl == Init /\ [][NextControl]_vars

\* runs whose start can throw
NextThrow ==
  \/ RunOptions
  \/ OptionsNext
  \/ PlanNext
  \/ StartTransfer
  \/ StartTransferFails
  \/ Completions

SpecThrow == Init /\ [][NextThrow]_vars

\* the wizard from the options step on, with the way back from the plan
\* step, on bucket b1
NextNav ==
  \/ \E d \in Directions : SetDirection(d)
  \/ HandleBucketSelection("b1")
  \/ \E pol \in Policies : SetConflictPolicy(pol)
  \/ \E b \in BOOLEAN : SetDryRun(b)
  \/ OptionsNext
  \/ PlanBack
  \/ Rescan
  \/ PlanNext
  \/ StartTransfer
  \/ PauseTransfer
  \/ ResumeTransfer
  \/ CancelTransfer
  \/ Completions

SpecNav == Init /\ [][NextNav]_vars

\* the loop of startTransfer alone
NextLoop ==
  \/ \E input \in ConcurrencyInputs : TypeConcurrency(input)
  \/ \E length \in 0..4 : LoopStart(length)
  \/ LoopPass
  \/ LoopReset

SpecLoop == Init /\ [][NextLoop]_vars

\* the lister alone
NextList ==
  \/ \E keys \in SUBSET {ListKeyOrder[i] : i \in 1..Len(ListKeyOrder)},
        nameless \in 0..3, failAt \in 0..3 :
       ListSetup(keys, nameless, failAt)
  \/ ListCall

SpecList == Init /\ [][NextList]_vars

\* the throughput / ETA computation alone
NextMeter ==
  \/ \E totalBytes \in 0..4, transferredBytes \in -1..5, elapsedSeconds \in -1..3 :
       MeterSetup(totalBytes, transferredBytes, elapsedSeconds)
  \/ MeterUpdate

SpecMeter == Init /\ [][NextMeter]_vars

\* the activity log alone
NextLog ==
  \/ \E n \in 1..Len(LogObjects) : LogStart(n)
  \/ \E k \in 1..Len(LogObjects), outcome \in {"completed", "failed"} :
       LogSettle(k, outcome)
  \/ LogPause

SpecLog == Init /\ [][NextLog]_vars

\* updateState alone, under the updates the wizard issues
NextPersist ==
  \/ TosAccept
  \/ \E field \in CredentialFields, value \in CredentialValues :
       EditCredentials(field, value)
  \/ \E found \in 0..1 : BucketsFound(found)
  \/ \E i \in 1..6 : GoTo(i)
  \/ \E message \in {"Starting file scan...", "Scan complete"} : LogsUpdated(message)
  \/ Restart
  \/ ClearData

SpecPersist == Init /\ [][NextPersist]_vars

\* the connection tests alone
NextTest ==
  \/ \E url \in SupabaseUrls, key \in SupabaseKeys, failures \in 0..4, found \in 0..1 :
       TestSupabase([url |-> url, serviceKey |-> key], failures, found)
  \/ \E a \in AccountIds, k \in AccessKeyIds, s \in SecretAccessKeys,
        failures \in 0..4, found \in 0..1 :
       TestR2([accountId |-> a, accessKeyId |-> k, secretAccessKey |-> s], failures, found)

SpecTest == Init /\ [][NextTest]_vars

Next == NextPlan \/ NextRun \/ NextControl \/ NextThrow \/ NextNav \/ NextLoop \/ NextList \/ NextMeter \/ NextLog
          \/ NextPersist \/ NextTest

Spec == Init /\ [][Next]_vars

(***************************************************************************)
(* Claims                                                                  *)
(***************************************************************************)
PlanFiles == IF plan = <<>> THEN <<>> ELSE plan[1].files

\* the plan is the result of a scan of the backends, failing endpoints and
\* options as they are now
PlanIsCurrent == plan # <<>> /\ lastScan # <<>>

\* what the lister returns now for the selected buckets
ListedNow ==
  LET PerBucket(bucket) == ListBucket(bucket, opts, store, down)
  IN FlatMap(PerBucket, opts.selectedBuckets)

\* a listed object is a record of the plan (not a mock file)
InPlan(f) ==
  \E i \in 1..Len(PlanFiles) :
    /\ ~PlanFiles[i].mock
    /\ PlanFiles[i].bucket = f.bucket
    /\ PlanFiles[i].key = f.key
    /\ PlanFiles[i].size = f.size

\* the plan holds every listed object that fits the size ceiling
EveryFittingObjectPlanned ==
  \A j \in 1..Len(ListedNow) :
    ListedNow[j].size <= opts.maxFileSize => InPlan(ListedNow[j])

\* C1: under every sequence of scan, start, pause, resume and cancel, in
\* either direction, every upload is issued against the destination backend
\* of its run, the source backend of a run holds exactly what it would hold
\* had the program written nothing, no object of either backend is ever
\* removed, and before any run (listing and probing only) both backends are
\* untouched.
C1_NonDestructive ==
  /\ \A c \in calls : c.op = "upload" => c.backend = DestOf(runs[c.run].direction)
  /\ \A r \in 1..Len(runs) :
       store[SourceOf(runs[r].direction)] = shadow[SourceOf(runs[r].direction)]
  /\ \A b \in Backends, obj \in Objs : shadow[b][obj] # 0 => store[b][obj] # 0
  /\ runs = <<>> => store = shadow

\* a live run started after a pause or cancel has written to the destination
C1_Witness ==
  /\ aborted # {}
  /\ store # shadow
  /\ \E r \in 1..Len(runs) :
       /\ r >= 2
       /\ ~runs[r].dryRun
       /\ \E k \in 1..Len(runs[r].todo) : runs[r].pc[k] = "completed"

\* C2: a run with dryRun true issues no download and no upload call, and
\* while every run is a dry run the backends hold exactly what they would
\* hold had the program written nothing, for every plan and concurrency.
C2_DryRunNoIO ==
  /\ \A r \in 1..Len(runs) : runs[r].dryRun => \A c \in calls : c.run # r
  /\ (\A r \in 1..Len(runs) : runs[r].dryRun) => store = shadow

\* a dry run of three files in two batches has run to its end
C2_Witness ==
  \E r \in 1..Len(runs) :
    /\ runs[r].dryRun
    /\ runs[r].returned
    /\ runs[r].concurrency = 2
    /\ Len(runs[r].todo) = 3
    /\ \A k \in 1..3 : runs[r].pc[k] = "completed"

\* C3: a plan record whose destination probe reported present under
\* conflictPolicy skip has action skip, and no run, dry or live, issues a
\* download or an upload for it.
C3_SkipNeverTransferred ==
  \A i \in 1..Len(PlanFiles) :
    (PlanFiles[i].probe = "present" /\ plan[1].scannedWith.conflictPolicy = "skip")
      => /\ PlanFiles[i].action = "skip"
         /\ \A c \in calls : c.idx # i

\* a second, live run of a plan with a skipped record has run to its end
\* and transferred another record
C3_Witness ==
  /\ \E i \in 1..Len(PlanFiles) :
       PlanFiles[i].probe = "present" /\ plan[1].scannedWith.conflictPolicy = "skip"
  /\ \E r \in 1..Len(runs) :
       /\ r >= 2
       /\ ~runs[r].dryRun
       /\ runs[r].returned
       /\ \E k \in 1..Len(runs[r].todo) : runs[r].pc[k] = "completed"

\* C4: in a live run, in both directions, the upload of a record with
\* action copy never replaces an object the destination holds at upload
\* time, and only records with action overwrite are uploaded with the
\* overwrite flag set.
C4_CopyNeverReplaces ==
  /\ clobbered = {}
  /\ \A c \in calls :
       (c.op = "upload" /\ c.upsert = "true") => PlanFiles[c.idx].action = "overwrite"

\* C5: after a scan, a listed object larger than maxFileSize is no record
\* of the plan, every listed object of size <= maxFileSize is one, every
\* record that is not a mock file fits, and totalFiles / totalBytes count
\* exactly the records of the plan.
C5_SizeCeiling ==
  PlanIsCurrent =>
    /\ \A j \in 1..Len(ListedNow) :
         ListedNow[j].size > opts.maxFileSize => ~InPlan(ListedNow[j])
    /\ EveryFittingObjectPlanned
    /\ \A i \in 1..Len(PlanFiles) :
         ~PlanFiles[i].mock => PlanFiles[i].size <= opts.maxFileSize
    /\ plan[1].totalFiles = Len(PlanFiles)
    /\ plan[1].totalBytes = SumSeq([i \in 1..Len(PlanFiles) |-> PlanFiles[i].size])

\* a scan listed an object above the ceiling and one exactly at it
C5_Witness ==
  /\ PlanIsCurrent
  /\ \E j \in 1..Len(ListedNow) : ListedNow[j].size > opts.maxFileSize
  /\ \E j \in 1..Len(ListedNow) :
       ListedNow[j].size = opts.maxFileSize /\ InPlan(ListedNow[j])

\* C6: a plan record whose destination probe reported absent has action
\* copy under every policy, and a record has action skip or overwrite only
\* if its probe reported present.
C6_AbsentMeansCopy ==
  \A i \in 1..Len(PlanFiles) :
    /\ PlanFiles[i].probe = "absent" => PlanFiles[i].action = "copy"
    /\ PlanFiles[i].action \in {"skip", "overwrite"} => PlanFiles[i].probe = "present"

\* a plan made under overwrite-newer holds a record probed absent and one
\* probed present
C6_Witness ==
  /\ plan # <<>>
  /\ plan[1].scannedWith.conflictPolicy = "overwrite-newer"
  /\ \E i \in 1..Len(PlanFiles) : PlanFiles[i].probe = "absent"
  /\ \E i \in 1..Len(PlanFiles) : PlanFiles[i].probe = "present"

\* C7 as stated: under always-overwrite every record of the plan has action
\* overwrite.
C7_AllOverwrite ==
  (plan # <<>> /\ plan[1].scannedWith.conflictPolicy = "always-overwrite")
    => \A i \in 1..Len(PlanFiles) : PlanFiles[i].action = "overwrite"

\* C7 as amended: under always-overwrite every record whose destination
\* probe reported present has action overwrite, and every other record
\* (probe absent or failed, mock file) has action copy.
C7_PresentOverwrite ==
  (plan # <<>> /\ plan[1].scannedWith.conflictPolicy = "always-overwrite")
    => \A i \in 1..Len(PlanFiles) :
         PlanFiles[i].action =
           IF PlanFiles[i].probe = "present" THEN "overwrite" ELSE "copy"

\* a plan made under always-overwrite holds a record probed present and one
\* probed absent
C7_Witness ==
  /\ plan # <<>>
  /\ plan[1].scannedWith.conflictPolicy = "always-overwrite"
  /\ \E i \in 1..Len(PlanFiles) : PlanFiles[i].probe = "present"
  /\ \E i \in 1..Len(PlanFiles) : PlanFiles[i].probe = "absent"

\* C8: a record whose destination probe failed has action copy under every
\* policy and is among the files the next run processes; the scan is not
\* aborted: the plan holds every listed object that fits the size ceiling.
C8_FailedProbeCopies ==
  /\ \A i \in 1..Len(PlanFiles) :
       PlanFiles[i].probe = "failed" =>
         /\ PlanFiles[i].action = "copy"
         /\ \E k \in 1..Len(FilesToProcess(PlanFiles)) : FilesToProcess(PlanFiles)[k] = i
  /\ PlanIsCurrent => EveryFittingObjectPlanned

\* under policy skip the probe of an object the destination holds failed,
\* and another record of the same plan was probed
C8_Witness ==
  /\ PlanIsCurrent
  /\ opts.conflictPolicy = "skip"
  /\ \E i \in 1..Len(PlanFiles) :
       /\ PlanFiles[i].probe = "failed"
       /\ store[DestOf(opts.direction)][<<PlanFiles[i].bucket, PlanFiles[i].key>>] # 0
  /\ \E i \in 1..Len(PlanFiles) : PlanFiles[i].probe \in {"present", "absent"}

C10_StatusRecorded ==
  \A r \in 1..Len(runs) :
    runs[r].returned =>
      \A k \in 1..Len(runs[r].todo) :
        LET f == PlanFiles[runs[r].todo[k]]
        IN /\ runs[r].pc[k] = "completed" =>
                (f.status = "completed" /\ f.transferredBytes = f.size)
           /\ runs[r].pc[k] = "failed" => (f.status = "failed" /\ f.error # "")

\* the sum of the sizes of the plan's records
PlanBytes == SumSeq([i \in 1..Len(PlanFiles) |-> PlanFiles[i].size])

\* C11: a dry run of a plan without skip records that was neither paused
\* nor cancelled ends with completedFiles = the number of plan records,
\* failedFiles = 0 and transferredBytes = the sum of the records' sizes.
C11_DryRunTotals ==
  \A r \in 1..Len(runs) :
    ( /\ runs[r].returned
      /\ runs[r].dryRun
      /\ aborted = {}
      /\ \A i \in 1..Len(PlanFiles) : PlanFiles[i].action # "skip" )
    => /\ transferProgress[1].completedFiles = Len(PlanFiles)
       /\ transferProgress[1].failedFiles = 0
       /\ transferProgress[1].transferredBytes = PlanBytes

\* C12: once the controller of a run is aborted (pause or cancel), that run
\* starts no further batch: none of its files that is still pending is
\* started, whatever is pressed afterwards.
C12_NoBatchAfterAbort ==
  [][\A r \in 1..Len(runs) :
       r \in aborted =>
         \A k \in 1..Len(runs[r].todo) :
           runs[r].pc[k] = "pending" => runs'[r].pc[k] = "pending"]_vars

\* the processFile calls started and not yet settled, over all runs
InFlightCount ==
  LET Busy(r) == {k \in 1..Len(runs[r].todo) : runs[r].pc[k] \in {"timer", "download", "upload"}}
      Pairs == {<<r, k>> \in (1..Len(runs)) \X FileIds : k \in Busy(r)}
  IN Cardinality(Pairs)

\* C13: in every reachable state the number of transfers in flight is at
\* most the configured concurrency.
C13_InFlightBounded == InFlightCount <= opts.concurrency

\* the keys of a sequence of files
KeysOf(files) == {files[i].key : i \in 1..Len(files)}

\* C14: when the storage.objects path is not used for a bucket, the lister
\* calls listFiles exactly once and returns the full set of the bucket's
\* keys, whatever the number of objects.
C14_FallbackComplete ==
  (listing.done /\ ~listing.usedDB)
    => /\ listing.fallbackCalls = 1
       /\ KeysOf(listing.files) = KeysOf(listing.rows)

\* C15: after a scan, every record of the plan is an object the lister
\* returned for a selected bucket (so a bucket whose listing failed or gave
\* no object contributes no record), and every listed object that fits the
\* size ceiling is planned, whatever happened to the other buckets.
C15_OnlyListedObjects ==
  PlanIsCurrent =>
    /\ \A i \in 1..Len(PlanFiles) :
         \E j \in 1..Len(ListedNow) :
           /\ ListedNow[j].bucket = PlanFiles[i].bucket
           /\ ListedNow[j].key = PlanFiles[i].key
           /\ ListedNow[j].size = PlanFiles[i].size
    /\ EveryFittingObjectPlanned

C17_AtMostOnce ==
  \A r \in 1..Len(runs) :
    /\ \A k \in 1..Len(runs[r].todo) :
         /\ runs[r].nStart[k] <= 1
         /\ runs[r].nDown[k] <= 1
         /\ runs[r].nUp[k] <= 1
         /\ PlanFiles[runs[r].todo[k]].action # "skip"
         /\ \A k2 \in 1..Len(runs[r].todo) : k2 # k => runs[r].todo[k2] # runs[r].todo[k]
    /\ (runs[r].returned /\ r \notin aborted) =>
         /\ \A i \in 1..Len(PlanFiles) :
              PlanFiles[i].action # "skip" =>
                \E k \in 1..Len(runs[r].todo) : runs[r].todo[k] = i
         /\ \A k \in 1..Len(runs[r].todo) :
              runs[r].nStart[k] = 1 /\ Terminal(runs[r].pc[k])

\* a paused or cancelled run and the live run started after it have both
\* ended, the later one with a failed and a transferred file
C17_Witness ==
  \E r1, r2 \in 1..Len(runs) :
    /\ r1 \in aborted
    /\ runs[r1].returned
    /\ r2 \notin aborted
    /\ ~runs[r2].dryRun
    /\ runs[r2].returned
    /\ \E k \in 1..Len(runs[r2].todo) : runs[r2].pc[k] = "failed"
    /\ \E k \in 1..Len(runs[r2].todo) : runs[r2].pc[k] = "completed"

\* the files of run r with the given outcome
Settled(r, outcome) == {k \in 1..Len(runs[r].todo) : runs[r].pc[k] = outcome}

\* the sum of the sizes of the files ks of run r
RECURSIVE BytesOf(_, _)
BytesOf(r, ks) ==
  IF ks = {} THEN 0
  ELSE LET k == CHOOSE x \in ks : TRUE
       IN PlanFiles[runs[r].todo[k]].size + BytesOf(r, ks \ {k})

\* C18: while a single run is the only one, after k of its files have
\* reached a terminal outcome completedFiles + failedFiles = k and
\* transferredBytes = the sum of the sizes of the completed files.
C18_NoLostUpdate ==
  Len(runs) = 1 =>
    /\ transferProgress[1].completedFiles = Cardinality(Settled(1, "completed"))
    /\ transferProgress[1].failedFiles = Cardinality(Settled(1, "failed"))
    /\ transferProgress[1].transferredBytes = BytesOf(1, Settled(1, "completed"))

\* C19: for every plan, totalFiles = the number of records, totalBytes =
\* the sum of the sizes of all records (skip included), conflictCount = the
\* number of records with action skip or overwrite, and estimatedDuration
\* = totalBytes / 10 MiB per second (sizes are in MiB: totalBytes / 10).
C19_PlanTotals ==
  plan # <<>> =>
    /\ plan[1].totalFiles = Len(PlanFiles)
    /\ plan[1].totalBytes = PlanBytes
    /\ plan[1].conflictCount =
         Cardinality({i \in 1..Len(PlanFiles) : PlanFiles[i].action \in {"skip", "overwrite"}})
    /\ plan[1].estimatedDuration.den > 0
    /\ plan[1].estimatedDuration.num * 10 = plan[1].totalBytes * plan[1].estimatedDuration.den

\* a plan holds a skip record and a copy record
C19_Witness ==
  /\ plan # <<>>
  /\ \E i \in 1..Len(PlanFiles) : PlanFiles[i].action = "skip" /\ PlanFiles[i].size > 0
  /\ \E i \in 1..Len(PlanFiles) : PlanFiles[i].action = "copy"
  /\ plan[1].conflictCount >= 1

\* C20: the throughput of a snapshot is bytes / seconds when seconds > 0
\* and 0 otherwise; its estimatedTimeRemaining is (total - transferred) /
\* throughput when throughput > 0 and 0 otherwise; neither comes from a
\* division by zero; and for 0 <= transferredBytes <= totalBytes the
\* estimatedTimeRemaining is not negative.
C20_ThroughputAndEta ==
  meter.done =>
    LET thr == meter.throughput
        eta == meter.estimatedTimeRemaining
        remaining == meter.totalBytes - meter.transferredBytes
    IN /\ thr.den > 0
       /\ eta.den > 0
       /\ meter.elapsedSeconds > 0 =>
            thr.num * meter.elapsedSeconds = meter.transferredBytes * thr.den
       /\ meter.elapsedSeconds <= 0 => thr.num = 0
       /\ thr.num > 0 => eta.num * thr.num = remaining * thr.den * eta.den
       /\ thr.num <= 0 => eta.num = 0
       /\ (0 <= meter.transferredBytes /\ meter.transferredBytes <= meter.totalBytes)
            => eta.num >= 0

\* a snapshot part-way through a transfer got a positive throughput and a
\* positive estimatedTimeRemaining
C20_Witness ==
  /\ meter.done
  /\ meter.elapsedSeconds > 1
  /\ 0 < meter.transferredBytes
  /\ meter.transferredBytes < meter.totalBytes
  /\ meter.throughput.num > 0
  /\ meter.estimatedTimeRemaining.num > 0


\* C21: every failure of an object's transfer puts an error entry naming
\* its bucket and key in the log, and the entry stays there: at every
\* moment of a run the log holds one such entry for each object that has
\* failed so far (so f of them after a run with f failed objects).
C21_FailuresLogged ==
  \A k \in 1..Len(logger.pc) :
    logger.pc[k] = "failed" =>
      Cardinality({i \in 1..Len(logs) :
                     logs[i].level = "error" /\ logs[i].object = LogObjects[k]}) = 1

\* C22: whatever updates are made (credential edits, acceptance of the
\* terms, steps, bucket lists, log entries), the value updateState has
\* stored under 'app-state' holds neither supabaseCredentials nor
\* r2Credentials.
C22_NoCredentialsSaved ==
  persist.saved # <<>> => DOMAIN persist.saved[1] \cap CredentialFields = {}

\* after the terms were accepted both credentials were edited, and the
\* latest update, an edit, was saved as an empty object
C22_Witness ==
  /\ persist.state["tosAccepted"]
  /\ persist.state["supabaseCredentials"] # "c0"
  /\ persist.state["r2Credentials"] # "c0"
  /\ persist.saved # <<>>
  /\ DOMAIN persist.saved[1] = {}

\* the calls of testConnection and the delays the claim states for a probe
\* whose first `failures` calls fail
StatedAttempts(failures) == IF failures >= 3 THEN 3 ELSE failures + 1
StatedDelays(failures) ==
  IF failures = 0 THEN <<>> ELSE IF failures = 1 THEN <<1000>> ELSE <<1000, 2000>>

\* C23: the connection test of each backend, on credentials that pass
\* validation, calls testConnection until it succeeds and at most 3 times,
\* waiting 1000 ms and then 2000 ms between the calls: 3 calls when it
\* always fails, k calls when it first succeeds on call k <= 3.
C23_ProbeRetried ==
  (tester.last # <<>> /\ tester.last[1].error = "")
    => /\ tester.last[1].attempts = StatedAttempts(tester.last[1].failures)
       /\ tester.last[1].delays = StatedDelays(tester.last[1].failures)

\* C29: a connection test whose credentials fail validation makes no
\* testConnection and no listBuckets call and schedules no retry, leaves
\* the stored test results and availableBuckets as they were, and logs one
\* validation error.
C29_InvalidRejected ==
  (tester.last # <<>> /\ tester.last[1].error # "")
    => /\ tester.last[1].attempts = 0
       /\ tester.last[1].listCalls = 0
       /\ tester.last[1].delays = <<>>
       /\ tester.testResults = tester.last[1].before.testResults
       /\ tester.availableBuckets = tester.last[1].before.availableBuckets
       /\ tester.last[1].validationLogs = 1
       /\ tester.validationErrors[tester.last[1].backend] = tester.last[1].error

\* after a Supabase test that succeeded and found buckets, a test with a
\* key that fails validation was rejected, against a backend that is down
C29_Witness ==
  /\ tester.last # <<>>
  /\ tester.last[1].backend = "supabase"
  /\ tester.last[1].error = "Service key appears to be incomplete"
  /\ tester.last[1].failures > 0
  /\ tester.testResults.supabase = "true"
  /\ tester.availableBuckets.supabase = 1

\* C24: when a run has ended and no controller was ever aborted,
\* skippedFiles is the number of plan records with action skip and
\* completedFiles + failedFiles + skippedFiles = totalFiles.
C24_SkipsCounted ==
  \A r \in 1..Len(runs) :
    (runs[r].returned /\ aborted = {})
    => /\ transferProgress[1].skippedFiles =
            Cardinality({i \in 1..Len(PlanFiles) : PlanFiles[i].action = "skip"})
       /\ transferProgress[1].completedFiles + transferProgress[1].failedFiles
            + transferProgress[1].skippedFiles = transferProgress[1].totalFiles

\* the batch of the k-th file to process, counted from 0
BatchOf(r, k) == (k - 1) \div runs[r].concurrency

\* C25: within one run the files to process are the non-skip records in
\* plan order, split into consecutive batches of `concurrency` files; the
\* files of a batch are started together, and no file of a batch is started
\* before every file of the batches before it has settled.
C25_BatchesInOrder ==
  \A r \in 1..Len(runs) :
    /\ runs[r].todo = FilesToProcess(PlanFiles)
    /\ \A k, k2 \in 1..Len(runs[r].todo) : k < k2 => runs[r].todo[k] < runs[r].todo[k2]
    /\ \A k, k2 \in 1..Len(runs[r].todo) :
         runs[r].pc[k] # "pending" =>
           /\ BatchOf(r, k2) < BatchOf(r, k) => Terminal(runs[r].pc[k2])
           /\ BatchOf(r, k2) = BatchOf(r, k) => runs[r].pc[k2] # "pending"

\* a live run of three files with concurrency 2: the first batch has
\* settled, one file failed and one transferred, and the second batch, the
\* third file, is in flight
C25_Witness ==
  \E r \in 1..Len(runs) :
    /\ ~runs[r].dryRun
    /\ runs[r].concurrency = 2
    /\ Len(runs[r].todo) = 3
    /\ runs[r].pc[1] = "failed"
    /\ runs[r].pc[2] = "completed"
    /\ runs[r].pc[3] \in {"download", "upload"}

\* snapshot q is not behind snapshot p in any counter
NotBehind(p, q) ==
  /\ q.completedFiles >= p.completedFiles
  /\ q.failedFiles >= p.failedFiles
  /\ q.skippedFiles >= p.skippedFiles
  /\ q.transferredBytes >= p.transferredBytes

\* C26: while a single run is the only one, the snapshots observers see in
\* state.transferProgress and in progressRef never go back in
\* completedFiles, failedFiles, skippedFiles or transferredBytes, and the
\* end of a file's processing publishes a snapshot that differs from the
\* one published before.
C26_SnapshotsMonotone ==
  [][(Len(runs) = 1 /\ Len(runs') = 1)
       => /\ NotBehind(transferProgress[1], transferProgress'[1])
          /\ NotBehind(progressRef[1], progressRef'[1])
          /\ (\E k \in 1..Len(runs[1].todo) :
                ~Terminal(runs[1].pc[k]) /\ Terminal(runs'[1].pc[k]))
               => transferProgress' # transferProgress]_vars

\* C27: when an exception leaves the try block of startTransfer, that call
\* logs one top-level error and ends without onComplete: the step stays
\* transfer, isTransferring is false in the component and in the app
\* state, and state.transferProgress and progressRef hold the last snapshot
\* written before the exception (the one the call started with).
C27_ExceptionEndsRun ==
  [][\A r \in 1..Len(runs') :
       (r > Len(runs) /\ runs'[r].threw)
       => /\ runs'[r].topLevelErrors = 1
          /\ ~runs'[r].returned
          /\ step' = step
          /\ ~isTransferring'
          /\ ~appFlags'.isTransferring
          /\ transferProgress' # <<>>
          /\ progressRef' = transferProgress'
          /\ transferProgress'[1].totalFiles = Len(PlanFiles)
          /\ transferProgress'[1].completedFiles = 0
          /\ transferProgress'[1].failedFiles = 0
          /\ transferProgress'[1].skippedFiles = 0
          /\ transferProgress'[1].transferredBytes = 0]_vars

\* a start has thrown: the wizard is still on the transfer step with the
\* Start button shown, and the snapshot of that start is displayed
C27_Witness ==
  /\ Len(runs) = 1
  /\ runs[1].threw
  /\ runs[1].topLevelErrors = 1
  /\ step = "transfer"
  /\ StartShown
  /\ transferProgress # <<>>

\* C28: the run started by Resume (the only way a run starts while isPaused
\* is set) executes a plan scanned after the pause, that is the plan a scan
\* of the backends as they are at that moment gives, and starts with the
\* counters of its TransferProgress at zero.
C28_ResumeRescans ==
  [][(appFlags.isPaused /\ Len(runs') > Len(runs))
       => /\ PlanView(plan'[1]) = PlanView(ScanFiles(opts, store, down, <<>>))
          /\ runs'[Len(runs')].todo = FilesToProcess(ScanFiles(opts, store, down, <<>>).files)
          /\ transferProgress'[1].completedFiles = 0
          /\ transferProgress'[1].failedFiles = 0
          /\ transferProgress'[1].skippedFiles = 0
          /\ transferProgress'[1].transferredBytes = 0]_vars

\* C30: on a bucket of N rows tryListViaDB asks for the ranges [0, P-1],
\* [P, 2P-1], ... in this order and stops at the first page with fewer than
\* P rows (or at the query that errors); what it has collected is, in
\* order and once each, every row with a name of the pages it read, none
\* without a name; and it reports success iff N > 0 and no query errored.
C30_FastPathPagination ==
  listing.done =>
    LET rows == listing.table
        N == Len(rows)
        P == DbPageSize
        ranges == listing.db.ranges
        n == Len(ranges)
        read == IF listing.db.errored THEN n - 1 ELSE n
        upTo == IF read * P < N THEN read * P ELSE N
    IN /\ n >= 1
       /\ \A j \in 1..n : ranges[j] = <<(j - 1) * P, j * P - 1>>
       /\ \A j \in 1..(n - 1) : j * P <= N
       /\ listing.db.errored <=> listing.failAt = n
       /\ ~listing.db.errored => N < n * P
       /\ listing.db.files = NamedRows(SubSeq(rows, 1, upTo))
       /\ \A i \in 1..Len(listing.db.files) : listing.db.files[i].key # ""
       /\ \A i, j \in 1..Len(listing.db.files) :
            i # j => listing.db.files[i].key # listing.db.files[j].key
       /\ ~listing.db.errored =>
            KeysOf(listing.db.files) = KeysOf(rows) \ {""}
       /\ listing.usedDB <=> (N > 0 /\ ~listing.db.errored)

\* a bucket of five rows, one of them without a name, was read in three
\* pages, the last one short, and four files were collected
C30_Witness ==
  /\ listing.done
  /\ Len(listing.table) = 5
  /\ \E i \in 1..5 : listing.table[i].key = ""
  /\ Len(listing.db.ranges) = 3
  /\ ~listing.db.errored
  /\ listing.usedDB
  /\ Len(listing.db.files) = 4

\* C31: a step of the executor (a start, a pause, a resume, a cancel, the end
\* of a file's processing) leaves every record's bucket, key, size and action
\* and the plan's totalFiles, totalBytes, conflictCount and
\* estimatedDuration as they were; the plan is never removed; and a step
\* that changes any of them is a rescan on the plan step, after which the
\* plan is what a scan from nothing gives, with no record of the old plan
\* kept.
C31_PlanFrozen ==
  [][/\ (runs' # runs \/ aborted' # aborted \/ appFlags' # appFlags
           \/ transferProgress' # transferProgress)
          => (plan # <<>> /\ plan' # <<>> /\ PlanView(plan'[1]) = PlanView(plan[1]))
     /\ plan # <<>> => plan' # <<>>
     /\ (plan # <<>> /\ plan' # <<>> /\ PlanView(plan'[1]) # PlanView(plan[1]))
          => /\ step = "plan"
             /\ step' = "plan"
             /\ runs' = runs
             /\ PlanView(plan'[1]) = PlanView(ScanFiles(opts, store, down, <<>>))]_vars

\* a live run was paused and another one started; an upload has written
\* transferredBytes into its record of the plan, a plan that holds a
\* conflict
C31_Witness ==
  /\ Len(runs) = 2
  /\ aborted # {}
  /\ ~runs[2].dryRun
  /\ plan[1].conflictCount >= 1
  /\ \E k \in 1..Len(runs[2].todo) :
       /\ runs[2].pc[k] = "completed"
       /\ PlanFiles[runs[2].todo[k]].transferredBytes = PlanFiles[runs[2].todo[k]].size

\* C32: what listFilesFromDatabase returns for a bucket holds each key at
\* most once, also when tryListViaDB read one or more pages, failed on a
\* later one and listFiles was called for the same bucket.
C32_NoDuplicateKeys ==
  listing.done =>
    \A i, j \in 1..Len(listing.files) :
      i # j => listing.files[i].key # listing.files[j].key

\* C33: whenever a run starts, the plan it executes was scanned under the
\* options in force at that moment: the same direction, selected buckets,
\* conflict policy and size ceiling.
C33_PlanMatchesOptions ==
  [][Len(runs') > Len(runs)
       => /\ plan[1].scannedWith.direction = opts.direction
          /\ plan[1].scannedWith.selectedBuckets = opts.selectedBuckets
          /\ plan[1].scannedWith.conflictPolicy = opts.conflictPolicy
          /\ plan[1].scannedWith.maxFileSize = opts.maxFileSize]_vars

\* C34: when a run calls onComplete (the step becomes complete as its
\* startTransfer returns), every file it had to process has reached a
\* terminal outcome in that run; so a run that was paused or cancelled
\* before its last batch never moves the wizard to the complete step.
C34_CompleteOnlyWhenDone ==
  [][\A r \in 1..Len(runs') :
       ( /\ runs'[r].returned
         /\ r <= Len(runs) => ~runs[r].returned
         /\ step' = "complete" )
       => \A k \in 1..Len(runs'[r].todo) : Terminal(runs'[r].pc[k])]_vars

\* C35: in every reachable state, while a call of startTransfer has not
\* come to its end (its loop has not returned, or one of its files is in
\* flight), isTransferring is true in the component, so the Start button is
\* not shown and Back to Plan is disabled.
C35_BusyMeansTransferring ==
  (\/ InFlightCount > 0
   \/ \E r \in 1..Len(runs) : ~runs[r].returned /\ ~runs[r].threw)
    => (isTransferring /\ ~StartShown)

\* C36: in every reachable state, under any sequence of start, pause,
\* resume and cancel, the current TransferProgress has completedFiles +
\* failedFiles + skippedFiles <= totalFiles and 0 <= transferredBytes <=
\* totalBytes.
C36_CountersBounded ==
  transferProgress # <<>> =>
    /\ transferProgress[1].completedFiles + transferProgress[1].failedFiles
         + transferProgress[1].skippedFiles <= transferProgress[1].totalFiles
    /\ 0 <= transferProgress[1].transferredBytes
    /\ transferProgress[1].transferredBytes <= transferProgress[1].totalBytes

\* C37: the concurrency the options step stores is always >= 1, and every
\* pass of the run loop that starts a batch moves the batch index strictly
\* up, so that the loop ends once the index has reached the number of
\* files to process.
C37_LoopAdvances ==
  [][/\ looper'.concurrency >= 1
     /\ looper'.iterations > looper.iterations => looper'.i > looper.i]_vars

\* C38: after clearData the in-memory state is initialState but for its
\* logs, which hold the one entry clearData logged, and the 'logs' and
\* 'app-state' keys of the storage hold that entry and nothing written
\* before the clear.
C38_ClearLeavesNothing ==
  [][(persist.state["step"] = "complete" /\ persist'.state["step"] = "tos")
       => /\ persist'.state = [InitialState EXCEPT !["logs"] = <<ClearedEntry>>]
          /\ persist'.savedLogs = << <<ClearedEntry>> >>
          /\ persist'.saved = << [x \in {"logs"} |-> <<ClearedEntry>>] >>]_vars
====
